---------------------------- MODULE Spec2Model ----------------------------
(***************************************************************************)
(* The project board of src/src/app.ts: the ProjectState registry (an      *)
(* array of Project objects and an array of listener callbacks), the two   *)
(* ProjectList views that subscribe to it, the ProjectInput form and the   *)
(* drag-and-drop handlers.  The program is single threaded: every handler  *)
(* runs to completion, so every action below is one whole handler.         *)
(*                                                                         *)
(* Representation.                                                         *)
(*   - A JavaScript string is a sequence of one-character strings.         *)
(*   - A JavaScript number is [nan, tenths]: the value tenths/10, or NaN.  *)
(*     One decimal digit is enough for every number the input sets hold.   *)
(*   - A Project object is identified by its position in `projects`: the   *)
(*     registry only ever pushes to that array, so the position of an      *)
(*     object never changes.  An array of Project references (a snapshot,  *)
(*     a view's assignedProjects) is a sequence of such positions.         *)
(***************************************************************************)
EXTENDS Integers, Sequences, FiniteSets, TLC

(***************************************************************************)
(* Bounds of the model.                                                    *)
(***************************************************************************)
\* addProject is not called once the registry holds this many projects
MaxProjects == 2
\* addListener is not called once this many listeners are registered
MaxListeners == 2
\* Math.random() returns one of 0, 0.1, ..., MaxRandom/10
MaxRandom == 1

(***************************************************************************)
(* Strings and numbers of the platform.                                    *)
(***************************************************************************)
Digits == <<"0", "1", "2", "3", "4", "5", "6", "7", "8", "9">>

IsDigit(c) == \E d \in 1..10 : Digits[d] = c

DigitVal(c) == (CHOOSE d \in 1..10 : Digits[d] = c) - 1

NaN == [nan |-> TRUE, tenths |-> 0]

\* the number n, an integer
Num(n) == [nan |-> FALSE, tenths |-> n * 10]

\* the number t/10
Tenths(t) == [nan |-> FALSE, tenths |-> t]

IsWhite(c) == c = " "

RECURSIVE TrimStart(_)
TrimStart(s) ==
  IF s # <<>> /\ IsWhite(Head(s)) THEN TrimStart(Tail(s)) ELSE s

RECURSIVE TrimEnd(_)
TrimEnd(s) ==
  IF s # <<>> /\ IsWhite(s[Len(s)])
  THEN TrimEnd(SubSeq(s, 1, Len(s) - 1))
  ELSE s

\* String.prototype.trim
Trim(s) == TrimEnd(TrimStart(s))

\* the value of a non-empty sequence of decimal digits
RECURSIVE DigitsVal(_)
DigitsVal(s) ==
  IF s = <<>> THEN 0
  ELSE DigitsVal(SubSeq(s, 1, Len(s) - 1)) * 10 + DigitVal(s[Len(s)])

AllDigits(s) == \A i \in 1..Len(s) : IsDigit(s[i])

\* an unsigned decimal literal: digits, or digits "." digit
UnsignedToNumber(s) ==
  IF s # <<>> /\ AllDigits(s) THEN Tenths(DigitsVal(s) * 10)
  ELSE IF /\ Len(s) >= 3
          /\ s[Len(s) - 1] = "."
          /\ IsDigit(s[Len(s)])
          /\ AllDigits(SubSeq(s, 1, Len(s) - 2))
       THEN Tenths(DigitsVal(SubSeq(s, 1, Len(s) - 2)) * 10 + DigitVal(s[Len(s)]))
       ELSE NaN

\* unary plus on a string: white space is stripped, the empty string is 0,
\* a decimal literal is its value and any other text is NaN
StringToNumber(s) ==
  LET t == Trim(s) IN
    IF t = <<>> THEN Num(0)
    ELSE IF Head(t) = "-"
         THEN LET u == UnsignedToNumber(Tail(t)) IN
                IF u.nan THEN NaN ELSE Tenths(0 - u.tenths)
         ELSE UnsignedToNumber(t)

\* the decimal digits of a natural number
RECURSIVE NatToString(_)
NatToString(n) ==
  IF n < 10 THEN <<Digits[n + 1]>>
  ELSE NatToString(n \div 10) \o <<Digits[(n % 10) + 1]>>

\* Number.prototype.toString
NumberToString(x) ==
  IF x.nan THEN <<"N", "a", "N">>
  ELSE LET a == IF x.tenths < 0 THEN 0 - x.tenths ELSE x.tenths
           whole == NatToString(a \div 10)
           frac == IF a % 10 = 0 THEN <<>> ELSE <<".", Digits[(a % 10) + 1]>>
       IN (IF x.tenths < 0 THEN <<"-">> ELSE <<>>) \o whole \o frac

\* x >= y and x <= y on numbers: false as soon as one side is NaN
NumGeq(x, y) == ~x.nan /\ ~y.nan /\ x.tenths >= y.tenths

NumLeq(x, y) == ~x.nan /\ ~y.nan /\ x.tenths <= y.tenths

\* the values Math.random() can return
RandomValues == {Tenths(t) : t \in 0..MaxRandom}

(***************************************************************************)
(* The state.                                                              *)
(***************************************************************************)
VARIABLES
  projects,          \* ProjectState.projects: the Project objects, in push order
  listeners,         \* ProjectState.listeners: the callbacks, in push order
  assignedProjects,  \* ProjectList.assignedProjects of aPL ("active") and fPL ("finished")
  calls,             \* the listener invocations the last handler made, in order
  arrays,            \* the arrays slice() made during the last handler, as they are now
  thrown,            \* the last handler ended with an exception
  lastOp,            \* the last handler that ran and the registry call it made
  subscribed,        \* history: the callback of every addListener call, in call order
  added,             \* history: the arguments of every addProject call of a handler
  moveCalled         \* history: moveProject has been called at least once

vars == <<projects, listeners, assignedProjects, calls, arrays, thrown, lastOp,
          subscribed, added,
          moveCalled>>

ProjectStatus == {"Active", "Finished"}

ViewTypes == {"active", "finished"}

\* the callbacks that are registered: the closure of each ProjectList and
\* the callbacks of other clients of the registry: one that reads the
\* array, one that throws, one that changes the array and one that calls
\* the registry
Listeners == ViewTypes \cup {"cb", "thrower", "mutator", "reentrant"}

Project(id, title, description, people, status) ==
  [id |-> id, title |-> title, description |-> description,
   people |-> people, status |-> status]


(***************************************************************************)
(* ProjectState, the registry.                                             *)
(*                                                                         *)
(* A call of the registry runs on a record s: projects, listeners and      *)
(* assigned are the fields the call reads and writes; arrays holds the     *)
(* arrays this.projects.slice() has made during the handler, an array      *)
(* being named by its place in arrays and this.projects by 0; calls is the *)
(* listener invocations so far; threw is TRUE once an exception is on its  *)
(* way out; armed and plan belong to the client listeners below.           *)
(***************************************************************************)
\* Array.prototype.slice(): a new array holding the same Project objects
slice(projs) == [i \in 1..Len(projs) |-> i]

\* what a listener reads in the array it is given: the objects' fields at
\* the time of the call
Deref(projs, items) == [k \in 1..Len(items) |-> projs[items[k]]]

\* the elements of the array named a
ArrayItems(s, a) == IF a = 0 THEN slice(s.projects) ELSE s.arrays[a]

\* relevantProjects with the test of the list's type left out: every list
\* keeps the active projects
relevantProjects_activeOnly(type, projs, items) ==
  SelectSeq(items, LAMBDA r : projs[r].status = "Active")

\* the listener a ProjectList registers: it keeps the projects of its own
\* status (renderProjects then rebuilds the list element from them)
relevantProjects(type, projs, items) ==
  SelectSeq(items, LAMBDA r : IF type = "active"
                              THEN projs[r].status = "Active"
                              ELSE projs[r].status = "Finished")

\* Array.prototype.reverse
Reverse(items) == [k \in 1..Len(items) |-> items[Len(items) + 1 - k]]

\* a listener that changes the array it was given: push of an element,
\* pop, or reverse.  Only the array named a changes; when that array is
\* this.projects itself the registry's sequence is what changes.
mutate(s, a, mutation) ==
  LET items == ArrayItems(s, a)
      changed == CASE mutation = "push" -> Append(items, items[1])
                   [] mutation = "pop" -> SubSeq(items, 1, Len(items) - 1)
                   [] mutation = "reverse" -> Reverse(items)
                   [] OTHER -> items
  IN IF a = 0
     THEN [s EXCEPT !.projects = Deref(s.projects, changed)]
     ELSE [s EXCEPT !.arrays[a] = changed]

RECURSIVE addProject(_, _, _, _, _)
RECURSIVE moveProject(_, _, _)

\* a listener that makes the registry call c of its own when it is called
reenter(s, c) ==
  CASE c.call = "addProject" ->
         addProject(s, c.args[1], c.args[2], c.args[3], c.rnd)
    [] c.call = "moveProject" -> moveProject(s, c.projectId, c.newStatus)
    [] OTHER -> s

\* a list listener that keeps the projects it already shows and puts the
\* newly relevant ones after them
listenerFn_keepsShown(i, a, s) ==
  LET fn == s.listeners[i]
      items == ArrayItems(s, a)
      called == [s EXCEPT !.calls = Append(@, [listener |-> i, fn |-> fn, array |-> a,
                                               items |-> Deref(s.projects, items)])]
      relevant == relevantProjects(fn, s.projects, items)
      shown == SelectSeq(s.assigned[fn],
                         LAMBDA r : \E k \in 1..Len(relevant) : relevant[k] = r)
      fresh == SelectSeq(relevant, LAMBDA r : \A k \in 1..Len(shown) : shown[k] # r)
  IN IF fn \in ViewTypes
     THEN [called EXCEPT !.assigned[fn] = shown \o fresh]
     ELSE called

\* one call listenerFn(a) of the i-th listener.  The listener of a
\* ProjectList assigns its list; "cb" only reads the array; "thrower"
\* throws; "mutator" changes the array; "reentrant" calls the registry,
\* once per handler (armed).
listenerFn(i, a, s) ==
  LET fn == s.listeners[i]
      items == ArrayItems(s, a)
      called == [s EXCEPT !.calls = Append(@, [listener |-> i, fn |-> fn, array |-> a,
                                               items |-> Deref(s.projects, items)])]
  IN CASE fn \in ViewTypes ->
            [called EXCEPT !.assigned[fn] = relevantProjects(fn, s.projects, items)]
       [] fn = "thrower" -> [called EXCEPT !.threw = TRUE]
       [] fn = "mutator" -> mutate(called, a, s.plan.mutation)
       [] fn = "reentrant" /\ s.armed ->
            reenter([called EXCEPT !.armed = FALSE], s.plan.inner)
       [] OTHER -> called

\* the loop body with the array itself in place of a copy of it
callListener_noSlice(i, s) == listenerFn(i, 0, s)

\* the loop body inside try/catch: the listener's exception is dropped
callListener_caught(i, s) ==
  LET copied == [s EXCEPT !.arrays = Append(@, slice(s.projects))]
  IN [listenerFn(i, Len(copied.arrays), copied) EXCEPT !.threw = FALSE]

\* the loop body handing out the first copy made in the handler again
callListener_firstCopy(i, s) ==
  IF s.arrays # <<>>
  THEN listenerFn(i, 1, s)
  ELSE LET copied == [s EXCEPT !.arrays = Append(@, slice(s.projects))]
       IN listenerFn(i, Len(copied.arrays), copied)

\* the body of the for-of loop: listenerFn(this.projects.slice())
callListener(i, s) ==
  listenerFn(i, Len(s.arrays) + 1,
             [s EXCEPT !.arrays = Append(@, slice(s.projects))])

\* the for-of loop of updateListeners from listener i on; an exception
\* leaves it
RECURSIVE notifyFrom(_, _)
notifyFrom(i, s) ==
  IF i > Len(s.listeners) \/ s.threw THEN s
  ELSE notifyFrom(i + 1, callListener(i, s))

\* updateListeners walking the listeners from the last to the first
RECURSIVE notifyDownFrom(_, _)
notifyDownFrom(i, s) ==
  IF i < 1 \/ s.threw THEN s
  ELSE notifyDownFrom(i - 1, callListener(i, s))

updateListeners_reversed(s) == notifyDownFrom(Len(s.listeners), s)

\* updateListeners that leaves the loop after the first listener
updateListeners_firstOnly(s) ==
  IF s.listeners = <<>> THEN s ELSE callListener(1, s)

updateListeners(s) == notifyFrom(1, s)

\* addListener that skips a callback it already holds
addListener_dedup(ls, listenerFn_) ==
  IF \E i \in 1..Len(ls) : ls[i] = listenerFn_ THEN ls ELSE Append(ls, listenerFn_)

addListener(ls, listenerFn_) == Append(ls, listenerFn_)

\* Array.prototype.find by id: the position of the first match, 0 for undefined
find(projs, projectId) ==
  IF \E i \in 1..Len(projs) : projs[i].id = projectId
  THEN CHOOSE i \in 1..Len(projs) :
         /\ projs[i].id = projectId
         /\ \A j \in 1..(i - 1) : projs[j].id # projectId
  ELSE 0

\* addProject that returns early on an empty title or a people count below 1
addProject_validates(s, title, description, numOfPeople, rnd) ==
  IF title = <<>> \/ ~NumGeq(numOfPeople, Num(1))
  THEN s
  ELSE LET newProject == Project(NumberToString(rnd), title, description,
                                 numOfPeople, "Active")
       IN updateListeners([s EXCEPT !.projects = Append(@, newProject)])

\* addProject with unshift in place of push
addProject_unshift(s, title, description, numOfPeople, rnd) ==
  LET newProject == Project(NumberToString(rnd), title, description,
                            numOfPeople, "Active")
  IN updateListeners([s EXCEPT !.projects = <<newProject>> \o @])

\* rnd is the value Math.random() returns
addProject(s, title, description, numOfPeople, rnd) ==
  LET newProject == Project(NumberToString(rnd), title, description,
                            numOfPeople, "Active")
  IN updateListeners([s EXCEPT !.projects = Append(@, newProject)])

\* moveProject that takes the project out of the array and pushes it again
moveProject_movesToEnd(s, projectId, newStatus) ==
  LET projs == s.projects
      i == find(projs, projectId)
  IN IF i # 0 /\ projs[i].status # newStatus
     THEN updateListeners(
            [s EXCEPT !.projects =
               SubSeq(projs, 1, i - 1) \o SubSeq(projs, i + 1, Len(projs))
                 \o <<[projs[i] EXCEPT !.status = newStatus]>>])
     ELSE s

\* moveProject with updateListeners() after the if statement
moveProject_notifiesAnyway(s, projectId, newStatus) ==
  LET i == find(s.projects, projectId)
  IN IF i # 0 /\ s.projects[i].status # newStatus
     THEN updateListeners([s EXCEPT !.projects[i].status = newStatus])
     ELSE updateListeners(s)

\* moveProject with if(project) as its test
moveProject_noStatusCheck(s, projectId, newStatus) ==
  LET i == find(s.projects, projectId)
  IN IF i # 0
     THEN updateListeners([s EXCEPT !.projects[i].status = newStatus])
     ELSE s

moveProject(s, projectId, newStatus) ==
  LET i == find(s.projects, projectId)
  IN IF i # 0 /\ s.projects[i].status # newStatus
     THEN updateListeners([s EXCEPT !.projects[i].status = newStatus])
     ELSE s

(***************************************************************************)
(* The form: validate and ProjectInput.gatherUserInput.                    *)
(***************************************************************************)
StringValue(s) == [type |-> "string", str |-> s]

NumberValue(n) == [type |-> "number", num |-> n]

\* value.toString()
ValueToString(v) == IF v.type = "string" THEN v.str ELSE NumberToString(v.num)

\* a Validatable is a record with the field value and any of the optional
\* fields required, minLength, maxLength, min, max
validate(validatableInput) ==
  LET has(f) == f \in DOMAIN validatableInput
      v == validatableInput.value
      required == IF has("required") /\ validatableInput.required
                  THEN Len(Trim(ValueToString(v))) # 0
                  ELSE TRUE
      minLength == IF has("minLength") /\ v.type = "string"
                   THEN Len(v.str) >= validatableInput.minLength
                   ELSE TRUE
      maxLength == IF has("maxLength") /\ v.type = "string"
                   THEN Len(v.str) <= validatableInput.maxLength
                   ELSE TRUE
      min == IF has("min") /\ v.type = "number"
             THEN NumGeq(v.num, Num(validatableInput.min))
             ELSE TRUE
      max == IF has("max") /\ v.type = "number"
             THEN NumLeq(v.num, Num(validatableInput.max))
             ELSE TRUE
  IN required /\ minLength /\ maxLength /\ min /\ max

\* gatherUserInput that rejects only when all three fields are invalid
gatherUserInput_rejectsWhenAllFail(titleValue, descriptionValue, peopleValue) ==
  LET enteredTitle == Trim(titleValue)
      enteredDescription == Trim(descriptionValue)
      enteredPeople == Trim(peopleValue)
      titleValidateable == [value |-> StringValue(enteredTitle), required |-> TRUE]
      descriptionValidateable ==
        [value |-> StringValue(enteredDescription), required |-> TRUE, minLength |-> 5]
      peopleValidateable ==
        [value |-> NumberValue(StringToNumber(enteredPeople)), required |-> TRUE,
         min |-> 1, max |-> 5]
  IN IF /\ ~validate(titleValidateable)
        /\ ~validate(descriptionValidateable)
        /\ ~validate(peopleValidateable)
     THEN [ok |-> FALSE]
     ELSE [ok |-> TRUE, title |-> enteredTitle, description |-> enteredDescription,
           people |-> StringToNumber(enteredPeople)]

\* the three fields' texts are the arguments; ok is FALSE for the void return
gatherUserInput(titleValue, descriptionValue, peopleValue) ==
  LET enteredTitle == Trim(titleValue)
      enteredDescription == Trim(descriptionValue)
      enteredPeople == Trim(peopleValue)
      titleValidateable == [value |-> StringValue(enteredTitle), required |-> TRUE]
      descriptionValidateable ==
        [value |-> StringValue(enteredDescription), required |-> TRUE, minLength |-> 5]
      peopleValidateable ==
        [value |-> NumberValue(StringToNumber(enteredPeople)), required |-> TRUE,
         min |-> 1, max |-> 5]
  IN IF \/ ~validate(titleValidateable)
        \/ ~validate(descriptionValidateable)
        \/ ~validate(peopleValidateable)
     THEN [ok |-> FALSE]
     ELSE [ok |-> TRUE, title |-> enteredTitle, description |-> enteredDescription,
           people |-> StringToNumber(enteredPeople)]

(***************************************************************************)
(* Drag and drop.                                                          *)
(***************************************************************************)
\* a DragEvent: dataTransfer is null, or holds items (format, data) in the
\* order they were set
NullTransfer == [hasTransfer |-> FALSE, items |-> <<>>]

Transfer(items) == [hasTransfer |-> TRUE, items |-> items]

Item(format, data) == [format |-> format, data |-> data]

\* getData that returns the data of the first item whatever its format
getData_firstItem(e, format) ==
  IF e.items # <<>> THEN e.items[1].data ELSE <<>>

\* DataTransfer.getData(format): the data of that format, else the empty string
getData(e, format) ==
  IF \E k \in 1..Len(e.items) : e.items[k].format = format
  THEN e.items[CHOOSE k \in 1..Len(e.items) : e.items[k].format = format].data
  ELSE <<>>

\* ProjectItem.dragStart on the card of a project with this id
dragStart(projectId) == Transfer(<<Item("text/plain", projectId)>>)

\* ProjectList.dragOver: TRUE when it calls preventDefault, which is what
\* lets the browser deliver a drop
dragOver(e) == e.hasTransfer /\ e.items # <<>> /\ e.items[1].format = "text/plain"

\* ProjectList.drop on the list of this type; threw is TRUE when reading
\* the null dataTransfer raises the TypeError that ends the handler, or
\* when moveProject throws
drop(type, e, s) ==
  IF ~e.hasTransfer
  THEN [threw |-> TRUE, called |-> FALSE, s |-> s]
  ELSE LET prjId == getData(e, "text/plain")
           newStatus == IF type = "active" THEN "Active" ELSE "Finished"
           m == moveProject(s, prjId, newStatus)
       IN [threw |-> m.threw, called |-> TRUE, prjId |-> prjId,
           newStatus |-> newStatus, s |-> m]

(***************************************************************************)
(* The inputs the handlers are run on.                                     *)
(***************************************************************************)
\* texts typed into the form's fields: a title and a blank title, a
\* description of five characters and one of four between spaces, and
\* people counts around the two limits, a fraction, a word and nothing
TitleText == <<" ", "T", " ">>

BlankText == <<" ">>

DescriptionText == <<"a", "b", "c", "d", "e">>

ShortText == <<" ", "a", "b", "c", "d", " ">>

PeopleInputs ==
  {<<>>, <<"0">>, <<" ", "5">>, <<"6">>, <<"x">>, <<"2", ".", "5">>}

\* the form's fields at a submit: (title, description, people)
FormInputs ==
  {<<TitleText, DescriptionText, p>> : p \in PeopleInputs}
    \cup {<<BlankText, DescriptionText, <<" ", "5">>>>,
          <<TitleText, ShortText, <<" ", "5">>>>,
          <<BlankText, ShortText, <<"x">>>>}

\* arguments (title, description, numOfPeople) of a direct call of addProject
ClientArgs ==
  {<<<<>>, <<>>, Num(0 - 1)>>, <<<<"T">>, DescriptionText, Num(0)>>}

\* the ids addProject can give
RandomIds == {NumberToString(r) : r \in RandomValues}

\* the id of a direct moveProject call, the text of a drag
Texts == RandomIds \cup {<<"x">>}

\* the drags that can end on a list: a card of the board, a text or a link
\* dragged from elsewhere, an event without dataTransfer
DragEvents ==
  {dragStart(id) : id \in RandomIds}
    \cup {Transfer(<<Item("text/plain", <<"x">>)>>),
          Transfer(<<Item("text/uri-list", <<"0">>)>>),
          NullTransfer}

\* what a "mutator" does to its array
Mutations == {"push", "pop", "reverse"}

\* the call a "reentrant" makes: a moveProject, or an addProject when there
\* is room for one more project
NoCall == [call |-> "none"]

InnerCalls(room) ==
  {[call |-> "moveProject", projectId |-> id, newStatus |-> status] :
     id \in Texts, status \in ProjectStatus}
    \cup (IF room
          THEN {[call |-> "addProject", args |-> args, rnd |-> rnd] :
                  args \in ClientArgs, rnd \in RandomValues}
          ELSE {})

\* what the clients' callbacks do during one handler
NoPlan == [mutation |-> "none", inner |-> NoCall]

Plans(ls, room) ==
  {[mutation |-> m, inner |-> c] :
     m \in (IF \E i \in 1..Len(ls) : ls[i] = "mutator" THEN Mutations ELSE {"none"}),
     c \in (IF \E i \in 1..Len(ls) : ls[i] = "reentrant"
            THEN InnerCalls(room) ELSE {NoCall})}

(***************************************************************************)
(* The handlers.                                                           *)
(***************************************************************************)
Constructed(type) == \E i \in 1..Len(listeners) : listeners[i] = type

\* the record a handler's registry call starts on
Running(plan) ==
  [projects |-> projects, listeners |-> listeners, assigned |-> assignedProjects,
   calls |-> <<>>, arrays |-> <<>>, threw |-> FALSE, armed |-> TRUE, plan |-> plan]

Init ==
  /\ projects = <<>>
  /\ listeners = <<>>
  /\ assignedProjects = [t \in ViewTypes |-> <<>>]
  /\ calls = <<>>
  /\ arrays = <<>>
  /\ thrown = FALSE
  /\ lastOp = [handler |-> "none", call |-> "none"]
  /\ subscribed = <<>>
  /\ added = <<>>
  /\ moveCalled = FALSE

\* new ProjectList(type) whose listener is called once when it is registered
NewProjectList_initialCall(type) ==
  /\ ~Constructed(type)
  /\ Len(listeners) < MaxListeners
  /\ LET s == [Running(NoPlan) EXCEPT !.listeners = addListener(listeners, type),
                                      !.assigned[type] = <<>>]
         r == callListener(Len(s.listeners), s)
     IN /\ assignedProjects' = r.assigned
        /\ listeners' = r.listeners
        /\ calls' = r.calls
        /\ arrays' = r.arrays
  /\ thrown' = FALSE
  /\ lastOp' = [handler |-> "ProjectList", call |-> "addListener", fn |-> type]
  /\ subscribed' = Append(subscribed, type)
  /\ UNCHANGED <<projects, added, moveCalled>>

\* new ProjectList(type): the constructor empties assignedProjects and
\* configure registers the listener
NewProjectList(type) ==
  /\ ~Constructed(type)
  /\ Len(listeners) < MaxListeners
  /\ assignedProjects' = [assignedProjects EXCEPT ![type] = <<>>]
  /\ listeners' = addListener(listeners, type)
  /\ calls' = <<>>
  /\ arrays' = <<>>
  /\ thrown' = FALSE
  /\ lastOp' = [handler |-> "ProjectList", call |-> "addListener", fn |-> type]
  /\ subscribed' = Append(subscribed, type)
  /\ UNCHANGED <<projects, added, moveCalled>>

\* projectState.addListener(fn) by a client whose callback is of the kind fn
Subscribe(fn) ==
  /\ Len(listeners) < MaxListeners
  /\ listeners' = addListener(listeners, fn)
  /\ calls' = <<>>
  /\ arrays' = <<>>
  /\ thrown' = FALSE
  /\ lastOp' = [handler |-> "client", call |-> "addListener", fn |-> fn]
  /\ subscribed' = Append(subscribed, fn)
  /\ UNCHANGED <<projects, assignedProjects, added, moveCalled>>

\* projectState.addListener(cb) by a client whose callback reads the array
AddListenerCall == Subscribe("cb")

\* projectState.addProject(title, description, numOfPeople) called directly
AddProjectCall ==
  /\ Len(projects) < MaxProjects
  /\ \E args \in ClientArgs, rnd \in RandomValues,
        plan \in Plans(listeners, Len(projects) + 1 < MaxProjects) :
       \E r \in {addProject(Running(plan), args[1], args[2], args[3], rnd)} :
         /\ projects' = r.projects
         /\ assignedProjects' = r.assigned
         /\ calls' = r.calls
         /\ arrays' = r.arrays
         /\ thrown' = r.threw
         /\ lastOp' = [handler |-> "client", call |-> "addProject", title |-> args[1],
                       description |-> args[2], numOfPeople |-> args[3],
                       rnd |-> rnd, plan |-> plan]
         /\ added' = Append(added, args)
  /\ UNCHANGED <<listeners, subscribed, moveCalled>>

\* projectState.moveProject(projectId, newStatus) called directly
MoveProjectCall ==
  /\ \E projectId \in Texts, newStatus \in ProjectStatus,
        plan \in Plans(listeners, Len(projects) < MaxProjects) :
       \E r \in {moveProject(Running(plan), projectId, newStatus)} :
         /\ projects' = r.projects
         /\ assignedProjects' = r.assigned
         /\ calls' = r.calls
         /\ arrays' = r.arrays
         /\ thrown' = r.threw
         /\ lastOp' = [handler |-> "client", call |-> "moveProject",
                       projectId |-> projectId, newStatus |-> newStatus,
                       plan |-> plan]
  /\ moveCalled' = TRUE
  /\ UNCHANGED <<listeners, subscribed, added>>

\* the submit listener of ProjectInput.configure, with these texts in the fields
Submit ==
  /\ \E input \in FormInputs, rnd \in RandomValues :
       LET userInput == gatherUserInput(input[1], input[2], input[3]) IN
         IF userInput.ok
         THEN \E r \in {addProject(Running(NoPlan), userInput.title,
                                   userInput.description, userInput.people, rnd)} :
                /\ Len(projects) < MaxProjects
                /\ projects' = r.projects
                /\ assignedProjects' = r.assigned
                /\ calls' = r.calls
                /\ arrays' = r.arrays
                /\ thrown' = r.threw
                /\ lastOp' = [handler |-> "submit", call |-> "addProject", input |-> input,
                              title |-> userInput.title,
                              description |-> userInput.description,
                              numOfPeople |-> userInput.people]
                /\ added' = Append(added, <<userInput.title, userInput.description,
                                            userInput.people>>)
         ELSE /\ calls' = <<>>
              /\ arrays' = <<>>
              /\ thrown' = FALSE
              /\ lastOp' = [handler |-> "submit", call |-> "none", input |-> input]
              /\ UNCHANGED <<projects, assignedProjects, added>>
  /\ UNCHANGED <<listeners, subscribed, moveCalled>>

\* the drop listener of the list of this type, with this event
Drop(type) ==
  /\ Constructed(type)
  /\ \E e \in DragEvents :
       \E r \in {drop(type, e, Running(NoPlan))} :
         /\ projects' = r.s.projects
         /\ assignedProjects' = r.s.assigned
         /\ calls' = r.s.calls
         /\ arrays' = r.s.arrays
         /\ thrown' = r.threw
         /\ moveCalled' = (moveCalled \/ r.called)
         /\ lastOp' = IF r.called
                      THEN [handler |-> "drop", call |-> "moveProject", type |-> type,
                            event |-> e, projectId |-> r.prjId, newStatus |-> r.newStatus]
                      ELSE [handler |-> "drop", call |-> "none", type |-> type, event |-> e]
  /\ UNCHANGED <<listeners, subscribed, added>>

\* the registry and its clients: views and callbacks subscribe at any time,
\* addProject and moveProject are called with any arguments
Next ==
  \/ \E type \in ViewTypes : NewProjectList(type)
  \/ AddListenerCall
  \/ AddProjectCall
  \/ MoveProjectCall

Spec == Init /\ [][Next]_vars

\* the application: the script has built the form and the two lists, aPL
\* then fPL, and the user submits the form and drops drags on the lists
InitApp ==
  /\ projects = <<>>
  /\ listeners = addListener(addListener(<<>>, "active"), "finished")
  /\ assignedProjects = [t \in ViewTypes |-> <<>>]
  /\ calls = <<>>
  /\ arrays = <<>>
  /\ thrown = FALSE
  /\ lastOp = [handler |-> "none", call |-> "none"]
  /\ subscribed = <<"active", "finished">>
  /\ added = <<>>
  /\ moveCalled = FALSE

NextApp ==
  \/ Submit
  \/ \E type \in ViewTypes : Drop(type)

SpecApp == InitApp /\ [][NextApp]_vars

\* the registry with clients whose callbacks read the array or throw
NextThrow ==
  \/ \E fn \in {"cb", "thrower"} : Subscribe(fn)
  \/ AddProjectCall
  \/ MoveProjectCall

SpecThrow == Init /\ [][NextThrow]_vars

\* the registry with clients whose callbacks read the array or change it
NextMutate ==
  \/ \E fn \in {"cb", "mutator"} : Subscribe(fn)
  \/ AddProjectCall
  \/ MoveProjectCall

SpecMutate == Init /\ [][NextMutate]_vars

\* the registry with clients whose callbacks read the array or call the
\* registry again
NextReenter ==
  \/ \E fn \in {"cb", "reentrant"} : Subscribe(fn)
  \/ AddProjectCall
  \/ MoveProjectCall

SpecReenter == Init /\ [][NextReenter]_vars

(***************************************************************************)
(* Vocabulary of the properties.                                           *)
(***************************************************************************)
\* the list that shows the projects of a status
ViewOf(status) == IF status = "Active" THEN "active" ELSE "finished"

\* the objects a list of references holds
Members(items) == {items[k] : k \in 1..Len(items)}

\* how many times x occurs in the sequence q
Count(q, x) == Cardinality({k \in 1..Len(q) : q[k] = x})

\* the callbacks the last handler invoked, in the order it invoked them
CalledFns == [k \in 1..Len(calls) |-> calls[k].fn]

(***************************************************************************)
(* C1.  With aPL and fPL subscribed to the empty registry, after N         *)
(* addProject calls and no moveProject call the active list holds exactly  *)
(* N projects, the k-th being the project of the k-th call, all with       *)
(* status Active, and the finished list is empty.  (SpecApp)               *)
(***************************************************************************)
C1_ActiveListHoldsEveryAdd ==
  ~moveCalled =>
    LET active == assignedProjects["active"] IN
      /\ Len(active) = Len(added)
      /\ \A k \in 1..Len(active) :
           /\ active[k] \in 1..Len(projects)
           /\ projects[active[k]].title = added[k][1]
           /\ projects[active[k]].description = added[k][2]
           /\ projects[active[k]].people = added[k][3]
           /\ projects[active[k]].status = "Active"
      /\ Cardinality(Members(active)) = Len(active)
      /\ assignedProjects["finished"] = <<>>

\* two adds with different arguments have been made and no move
C1_Witness ==
  /\ ~moveCalled
  /\ Len(added) = 2
  /\ added[1] # added[2]
  /\ Len(assignedProjects["active"]) = 2

(***************************************************************************)
(* C2.  No two projects of the registry have the same id.  The id is       *)
(* Math.random().toString(), and nothing keeps two calls of Math.random()  *)
(* from returning the same number: the code does not establish this.       *)
(***************************************************************************)
C2_IdsAreUnique ==
  \A i, j \in 1..Len(projects) : i # j => projects[i].id # projects[j].id

(***************************************************************************)
(* C3.  moveProject(id, S), when the project the lookup finds has a        *)
(* status other than S, invokes every registered listener exactly once,    *)
(* every snapshot shows that project with status S, and afterwards the     *)
(* project is in the list for S and not in the list for its previous       *)
(* status (of the lists that have been constructed).  The project "the     *)
(* call is on" is the one find returns, the first with that id.            *)
(***************************************************************************)
C3_MoveNotifiesOnceAndSwitchesList ==
  [][LET i == find(projects, lastOp'.projectId) IN
       (/\ lastOp'.call = "moveProject"
        /\ i # 0
        /\ projects[i].status # lastOp'.newStatus)
       => /\ Len(calls') = Len(listeners)
          /\ \A j \in 1..Len(listeners) :
               Cardinality({k \in 1..Len(calls') : calls'[k].listener = j}) = 1
          /\ \A k \in 1..Len(calls') :
               /\ Len(calls'[k].items) = Len(projects)
               /\ calls'[k].items[i].id = lastOp'.projectId
               /\ calls'[k].items[i].status = lastOp'.newStatus
          /\ projects'[i].status = lastOp'.newStatus
          /\ Constructed(ViewOf(lastOp'.newStatus))
               => i \in Members(assignedProjects'[ViewOf(lastOp'.newStatus)])
          /\ i \notin Members(assignedProjects'[ViewOf(projects[i].status)])
    ]_vars

\* a move has just taken a project that both lists could show from one to
\* the other, with two listeners called
C3_Witness ==
  /\ lastOp.call = "moveProject"
  /\ Constructed("active") /\ Constructed("finished")
  /\ Len(calls) = 2
  /\ LET i == find(projects, lastOp.projectId) IN
       /\ i # 0
       /\ projects[i].status = lastOp.newStatus
       /\ i \in Members(assignedProjects[ViewOf(lastOp.newStatus)])

(***************************************************************************)
(* C4.  moveProject(id, S) with an id that no project has leaves the       *)
(* project sequence as it was and invokes no listener, for both S.         *)
(***************************************************************************)
C4_MoveOfAbsentIdIsNoOp ==
  [][(/\ lastOp'.call = "moveProject"
      /\ find(projects, lastOp'.projectId) = 0)
     => /\ projects' = projects
        /\ calls' = <<>>
        /\ assignedProjects' = assignedProjects
    ]_vars

\* a move with an absent id has just run on a registry that holds a
\* project and a listener
C4_Witness ==
  /\ lastOp.call = "moveProject"
  /\ find(projects, lastOp.projectId) = 0
  /\ projects # <<>>
  /\ listeners # <<>>
  /\ calls = <<>>

(***************************************************************************)
(* C5.  moveProject(id, S), when the project the lookup finds already has  *)
(* status S, invokes no listener and leaves the registry (its projects     *)
(* and its listeners) unchanged.                                           *)
(***************************************************************************)
C5_MoveToSameStatusIsNoOp ==
  [][LET i == find(projects, lastOp'.projectId) IN
       (/\ lastOp'.call = "moveProject"
        /\ i # 0
        /\ projects[i].status = lastOp'.newStatus)
       => /\ calls' = <<>>
          /\ projects' = projects
          /\ listeners' = listeners
          /\ assignedProjects' = assignedProjects
    ]_vars

\* a move to the status the project already had has just run, with a
\* listener registered
C5_Witness ==
  /\ lastOp.call = "moveProject"
  /\ listeners # <<>>
  /\ calls = <<>>
  /\ LET i == find(projects, lastOp.projectId) IN
       i # 0 /\ projects[i].status = lastOp.newStatus

\* the step is an addProject or a moveProject call that changed the registry
StateChangingCall ==
  /\ lastOp'.call \in {"addProject", "moveProject"}
  /\ projects' # projects

(***************************************************************************)
(* C6.  On every addProject or moveProject call that changes the state,    *)
(* the listeners are invoked in the order in which they were registered,   *)
(* and all of them have been invoked when the call returns.                *)
(***************************************************************************)
C6_ListenersCalledInRegistrationOrder ==
  [][StateChangingCall
     => /\ CalledFns' = subscribed
        /\ \A k \in 1..Len(calls') : calls'[k].listener = k
    ]_vars

\* a state-changing call has just invoked two different listeners
C6_Witness ==
  /\ lastOp.call \in {"addProject", "moveProject"}
  /\ Len(calls) = 2
  /\ calls[1].fn # calls[2].fn
  /\ CalledFns = subscribed

(***************************************************************************)
(* C7.  A callback registered k times with addListener is invoked k times  *)
(* on each notification: registrations are not deduplicated.               *)
(***************************************************************************)
C7_CalledOncePerRegistration ==
  [][StateChangingCall
     => \A f \in Listeners : Count(CalledFns', f) = Count(subscribed, f)
    ]_vars

\* the callback was registered twice and a notification has just called it twice
C7_Witness ==
  /\ lastOp.call \in {"addProject", "moveProject"}
  /\ Count(subscribed, "cb") = 2
  /\ Count(CalledFns, "cb") = 2

(***************************************************************************)
(* C8.  addListener invokes no callback, neither the one it registers nor  *)
(* another: a list constructed when the registry already holds projects    *)
(* starts empty, and no list changes in a step that does not change the    *)
(* projects, so it stays empty until the next state-changing addProject    *)
(* or moveProject.                                                         *)
(***************************************************************************)
C8_SubscribeInvokesNothing ==
  [][/\ lastOp'.call = "addListener"
          => /\ calls' = <<>>
             /\ projects' = projects
             /\ lastOp'.fn \in ViewTypes => assignedProjects'[lastOp'.fn] = <<>>
     /\ projects' = projects => assignedProjects' = assignedProjects
    ]_vars

\* a list has just been constructed on a registry that holds a project of
\* its status, and shows nothing
C8_Witness ==
  /\ lastOp.call = "addListener"
  /\ lastOp.fn \in ViewTypes
  /\ Constructed(lastOp.fn)
  /\ \E i \in 1..Len(projects) : ViewOf(projects[i].status) = lastOp.fn
  /\ assignedProjects[lastOp.fn] = <<>>
  /\ calls = <<>>

(***************************************************************************)
(* C9.  A submit whose input is invalid (the title is empty after          *)
(* trimming, or the description has fewer than 5 characters after          *)
(* trimming, or the people count is not a number between 1 and 5) does not *)
(* call addProject: the projects are unchanged and no listener is invoked. *)
(* (SpecApp)                                                               *)
(***************************************************************************)
InvalidInput(input) ==
  \/ Trim(input[1]) = <<>>
  \/ Len(Trim(input[2])) < 5
  \/ LET n == StringToNumber(input[3]) IN n.nan \/ n.tenths < 10 \/ n.tenths > 50

C9_InvalidSubmitDoesNotReachRegistry ==
  [][(lastOp'.handler = "submit" /\ InvalidInput(lastOp'.input))
     => /\ lastOp'.call = "none"
        /\ projects' = projects
        /\ added' = added
        /\ calls' = <<>>
        /\ assignedProjects' = assignedProjects
    ]_vars

\* a submit with a valid title, a valid people count and a short description
\* has just run on a board that holds a project
C9_Witness ==
  /\ lastOp.handler = "submit"
  /\ lastOp.input = <<TitleText, ShortText, <<" ", "5">>>>
  /\ InvalidInput(lastOp.input)
  /\ projects # <<>>
  /\ calls = <<>>

(***************************************************************************)
(* C10.  A drop whose payload is not what the dragStart of a card of the   *)
(* board writes (the id of a project, as text/plain) is ignored: the       *)
(* registry is unchanged and no listener is invoked.  (SpecApp)            *)
(***************************************************************************)
RecognizedDrag(e) == \E i \in 1..Len(projects) : e = dragStart(projects[i].id)

C10_UnrecognizedDropIsIgnored ==
  [][(lastOp'.handler = "drop" /\ ~RecognizedDrag(lastOp'.event))
     => /\ projects' = projects
        /\ listeners' = listeners
        /\ calls' = <<>>
        /\ assignedProjects' = assignedProjects
    ]_vars

\* a link whose text is the id of a project, a drag dragOver does not
\* accept, has just been dropped on the list the project is not in
C10_Witness ==
  /\ lastOp.handler = "drop"
  /\ lastOp.event = Transfer(<<Item("text/uri-list", <<"0">>)>>)
  /\ ~dragOver(lastOp.event)
  /\ \E i \in 1..Len(projects) :
       /\ projects[i].id = <<"0">>
       /\ ViewOf(projects[i].status) # lastOp.type
  /\ calls = <<>>

(***************************************************************************)
(* C11.  A moveProject call that changes the state changes only the status *)
(* of the project it targets: that project's id, title, description and    *)
(* people, its position, every field of every other project and the length *)
(* of the sequence are unchanged.                                          *)
(***************************************************************************)
C11_MoveChangesOnlyTheStatus ==
  [][(lastOp'.call = "moveProject" /\ projects' # projects)
     => LET i == find(projects, lastOp'.projectId) IN
          /\ i # 0
          /\ projects' = [projects EXCEPT ![i].status = lastOp'.newStatus]
    ]_vars

\* a move has just changed the first of two projects, with a listener called
C11_Witness ==
  /\ lastOp.call = "moveProject"
  /\ calls # <<>>
  /\ Len(projects) = 2
  /\ find(projects, lastOp.projectId) = 1
  /\ projects[1].status = lastOp.newStatus

(***************************************************************************)
(* C12.  After any addProject and moveProject calls, the k-th project of   *)
(* the registry is the project of the k-th addProject call, and each list  *)
(* shows its projects in that order, whatever the order in which they      *)
(* were moved into its status: a project moved to Finished and back to     *)
(* Active is back at its place among the active projects.                  *)
(***************************************************************************)
C12_ListsKeepTheOrderOfAddition ==
  /\ Len(projects) = Len(added)
  /\ \A k \in 1..Len(projects) :
       /\ projects[k].title = added[k][1]
       /\ projects[k].description = added[k][2]
       /\ projects[k].people = added[k][3]
  /\ \A v \in ViewTypes :
       \A a, b \in 1..Len(assignedProjects[v]) :
         a < b => assignedProjects[v][a] < assignedProjects[v][b]

\* the first of two projects has just been moved back to Active and the
\* active list shows it first again
C12_Witness ==
  /\ lastOp.call = "moveProject"
  /\ lastOp.newStatus = "Active"
  /\ calls # <<>>
  /\ find(projects, lastOp.projectId) = 1
  /\ assignedProjects["active"] = <<1, 2>>

(***************************************************************************)
(* C13.  addProject called directly never rejects its arguments: whatever  *)
(* the title, the description and the people count (an empty title, a zero *)
(* or negative count), it appends exactly one project with those values    *)
(* and status Active and notifies the listeners.                           *)
(***************************************************************************)
C13_AddProjectAcceptsAnyArguments ==
  [][(lastOp'.handler = "client" /\ lastOp'.call = "addProject")
     => /\ Len(projects') = Len(projects) + 1
        /\ SubSeq(projects', 1, Len(projects)) = projects
        /\ LET p == projects'[Len(projects')] IN
             /\ p.title = lastOp'.title
             /\ p.description = lastOp'.description
             /\ p.people = lastOp'.numOfPeople
             /\ p.status = "Active"
        /\ Len(calls') = Len(listeners)
        /\ \A k \in 1..Len(calls') : calls'[k].items = projects'
    ]_vars

\* a direct call with an empty title and a negative count has just added a
\* project and called a listener
C13_Witness ==
  /\ lastOp.handler = "client"
  /\ lastOp.call = "addProject"
  /\ lastOp.title = <<>>
  /\ lastOp.numOfPeople = Num(0 - 1)
  /\ calls # <<>>
  /\ projects[Len(projects)].title = <<>>
  /\ projects[Len(projects)].people = Num(0 - 1)

(***************************************************************************)
(* C16.  With both lists subscribed before the first mutation, after every *)
(* addProject and moveProject call the active list is the registry's       *)
(* sequence filtered to status Active and the finished list is it filtered *)
(* to status Finished, so that every project is in exactly one of the two  *)
(* lists.  (SpecApp)                                                       *)
(***************************************************************************)
WithStatus(status) ==
  SelectSeq([i \in 1..Len(projects) |-> i], LAMBDA r : projects[r].status = status)

C16_ListsAreTheFilteredRegistry ==
  /\ assignedProjects["active"] = WithStatus("Active")
  /\ assignedProjects["finished"] = WithStatus("Finished")
  /\ \A i \in 1..Len(projects) :
       (i \in Members(assignedProjects["active"]))
         # (i \in Members(assignedProjects["finished"]))

\* after a move, each list shows one of the two projects
C16_Witness ==
  /\ lastOp.call = "moveProject"
  /\ calls # <<>>
  /\ Len(assignedProjects["active"]) = 1
  /\ Len(assignedProjects["finished"]) = 1

(***************************************************************************)
(* C17.  Every project that reaches the registry through the form has a    *)
(* non-empty title, a non-empty description and a people count that is a   *)
(* positive integer from 1 to 5.  validate compares the count with the two *)
(* limits and never tests that it is whole: "2.5" is accepted.  (SpecApp)  *)
(***************************************************************************)
C17_FormProjectsAreWellFormed ==
  \A i \in 1..Len(projects) :
    /\ projects[i].title # <<>>
    /\ projects[i].description # <<>>
    /\ ~projects[i].people.nan
    /\ projects[i].people.tenths % 10 = 0
    /\ projects[i].people.tenths >= 10
    /\ projects[i].people.tenths <= 50

(***************************************************************************)
(* C14.  When a listener throws during a notification, the listeners       *)
(* registered after it are not invoked in that round, the listeners        *)
(* registered before it have been invoked, with the changed sequence, and  *)
(* the exception leaves addProject or moveProject; the change the call     *)
(* made to the projects stays.  Without a throwing listener the call ends  *)
(* normally.  (SpecThrow)                                                  *)
(***************************************************************************)
\* the place of the first listener that throws, 0 when there is none
FirstThrower ==
  IF \E i \in 1..Len(listeners) : listeners[i] = "thrower"
  THEN CHOOSE i \in 1..Len(listeners) :
         /\ listeners[i] = "thrower"
         /\ \A j \in 1..(i - 1) : listeners[j] # "thrower"
  ELSE 0

C14_ThrowEndsTheRound ==
  [][StateChangingCall
     => IF FirstThrower = 0
        THEN ~thrown' /\ Len(calls') = Len(listeners)
        ELSE /\ thrown'
             /\ Len(calls') = FirstThrower
             /\ \A k \in 1..Len(calls') :
                  /\ calls'[k].listener = k
                  /\ calls'[k].items = projects'
    ]_vars

\* a move has just changed a project with a thrower registered before a
\* callback: the thrower alone was called, and the call threw
C14_Witness ==
  /\ lastOp.call = "moveProject"
  /\ listeners = <<"thrower", "cb">>
  /\ thrown
  /\ CalledFns = <<"thrower">>
  /\ \E i \in 1..Len(projects) : projects[i].status = "Finished"

(***************************************************************************)
(* C15.  Every listener is handed an array of its own, never the           *)
(* registry's: when a listener pushes to, pops from or reverses the array  *)
(* it was given, the registry's sequence is what the call alone made it,   *)
(* the arrays of the other listeners of the round still hold the           *)
(* registry's sequence when the handler ends, and every listener of this   *)
(* and of every later round is handed the registry's sequence.             *)
(* (SpecMutate)                                                            *)
(***************************************************************************)
\* the projects the last call must leave, from its arguments alone
ProjectsAfterCall ==
  IF lastOp'.call = "addProject"
  THEN Append(projects, Project(NumberToString(lastOp'.rnd), lastOp'.title,
                                lastOp'.description, lastOp'.numOfPeople, "Active"))
  ELSE [projects EXCEPT ![find(projects, lastOp'.projectId)].status = lastOp'.newStatus]

C15_SnapshotsAreCopies ==
  [][StateChangingCall
     => /\ projects' = ProjectsAfterCall
        /\ Len(calls') = Len(listeners)
        /\ \A k \in 1..Len(calls') :
             /\ calls'[k].array \in 1..Len(arrays')
             /\ calls'[k].items = projects'
             /\ \A j \in 1..Len(calls') : j # k => calls'[j].array # calls'[k].array
             /\ calls'[k].fn # "mutator" => arrays'[calls'[k].array] = slice(projects')
    ]_vars

\* a move has just changed one of two projects with a mutator registered
\* after a callback, and the mutator popped its array
C15_Witness ==
  /\ lastOp.call = "moveProject"
  /\ listeners = <<"cb", "mutator">>
  /\ Len(calls) = 2
  /\ Len(projects) = 2
  /\ lastOp.plan.mutation = "pop"
  /\ arrays = <<<<1, 2>>, <<1>>>>

(***************************************************************************)
(* C18.  When a listener, while it is being notified, itself makes a call  *)
(* of addProject or moveProject, every listener has been invoked when the  *)
(* outermost call returns, and the last array each listener was handed     *)
(* shows the registry's final sequence: no listener is left with a stale   *)
(* last view.  (SpecReenter)                                               *)
(***************************************************************************)
\* the invocations of the j-th listener in the last handler
CallsOf(j) == {k \in 1..Len(calls) : calls[k].listener = j}

C18_LastSnapshotIsTheFinalSequence ==
  calls # <<>> =>
    \A j \in 1..Len(listeners) :
      /\ CallsOf(j) # {}
      /\ LET last == CHOOSE k \in CallsOf(j) : \A m \in CallsOf(j) : m <= k
         IN calls[last].items = projects

\* an addProject has just returned during which a reentrant listener,
\* registered before a callback, added a second project: the callback was
\* invoked in the inner round and then in the outer one
C18_Witness ==
  /\ lastOp.call = "addProject"
  /\ lastOp.plan.inner.call = "addProject"
  /\ listeners = <<"reentrant", "cb">>
  /\ Len(projects) = 2
  /\ [k \in 1..Len(calls) |-> calls[k].listener] = <<1, 1, 2, 2>>
  /\ Len(calls[1].items) = 1

=============================================================================
